---- MODULE Spec2Model ----
(***************************************************************************)
(* State-machine model of src/src/App.tsx, the TechCorp expense tracker:   *)
(* the React component's state, its event handlers, its effects, and the   *)
(* asynchronous continuations of its two network calls and two timers.     *)
(*                                                                         *)
(* Strings the user types are sequences of characters, so that trim() and  *)
(* JSON encoding are computed.  A value that may be null is a sequence of   *)
(* length at most one: << >> is null, <<v>> is the value v.                 *)
(***************************************************************************)
EXTENDS Integers, Sequences, FiniteSets, TLC

(* ------------------------------ bounds --------------------------------- *)

\* history queries in flight at once
MaxQueries == 2
\* 1-second refresh timers pending at once
MaxRefreshTimers == 1
\* pending 3-second identity-message timers
MaxMessageTimers == 1

(* ------------------------------ strings -------------------------------- *)

RECURSIVE TrimStart(_)
TrimStart(s) ==
    IF s # <<>> /\ Head(s) = " " THEN TrimStart(Tail(s)) ELSE s

RECURSIVE TrimEnd(_)
TrimEnd(s) ==
    IF s # <<>> /\ s[Len(s)] = " " THEN TrimEnd(SubSeq(s, 1, Len(s) - 1)) ELSE s

\* String.prototype.trim
Trim(s) == TrimEnd(TrimStart(s))

\* JavaScript truthiness of a string: only the empty string is falsy
Truthy(s) == s # <<>>

(* ------------------------------- JSON ---------------------------------- *)
(* A JSON text is a sequence of characters; the two property names are     *)
(* written as the single symbols "fullName" and "employeeId".              *)

\* Escape with the backslash left as it is
RECURSIVE EscapeQuoteOnly(_)
EscapeQuoteOnly(s) ==
    IF s = <<>> THEN <<>>
    ELSE (IF Head(s) = "\"" THEN <<"\\", Head(s)>> ELSE <<Head(s)>>)
         \o EscapeQuoteOnly(Tail(s))

RECURSIVE Escape(_)
Escape(s) ==
    IF s = <<>> THEN <<>>
    ELSE (IF Head(s) \in {"\"", "\\"} THEN <<"\\", Head(s)>> ELSE <<Head(s)>>)
         \o Escape(Tail(s))

Quote(s) == <<"\"">> \o Escape(s) \o <<"\"">>

\* JSON.stringify({ fullName: ..., employeeId: ... })
JSONStringify(e) ==
    <<"{">> \o Quote(<<"fullName">>) \o <<":">> \o Quote(e.fullName) \o <<",">>
            \o Quote(<<"employeeId">>) \o <<":">> \o Quote(e.employeeId) \o <<"}">>

ParseFail == [ok |-> FALSE, val |-> <<>>, next |-> 0]

\* the string literal whose opening quote is before position i
RECURSIVE ParseString(_, _, _)
ParseString(t, i, acc) ==
    IF i > Len(t) THEN ParseFail
    ELSE IF t[i] = "\"" THEN [ok |-> TRUE, val |-> acc, next |-> i + 1]
    ELSE IF t[i] = "\\"
         THEN IF i + 1 > Len(t) THEN ParseFail
              ELSE ParseString(t, i + 2, Append(acc, t[i + 1]))
    ELSE ParseString(t, i + 1, Append(acc, t[i]))

\* the members of an object, from position i; acc is the members read so far,
\* a sequence of <<key, string value>> pairs
RECURSIVE ParseMembers(_, _, _)
ParseMembers(t, i, acc) ==
    IF i > Len(t) \/ t[i] # "\"" THEN ParseFail
    ELSE LET k == ParseString(t, i + 1, <<>>) IN
         IF ~k.ok \/ k.next + 1 > Len(t) \/ t[k.next] # ":" \/ t[k.next + 1] # "\""
         THEN ParseFail
         ELSE LET v == ParseString(t, k.next + 2, <<>>) IN
              IF ~v.ok \/ v.next > Len(t) THEN ParseFail
              ELSE IF t[v.next] = "}"
                   THEN [ok |-> TRUE, val |-> Append(acc, <<k.val, v.val>>),
                         next |-> v.next + 1]
              ELSE IF t[v.next] = ","
                   THEN ParseMembers(t, v.next + 1, Append(acc, <<k.val, v.val>>))
              ELSE ParseFail

\* JSON.parse restricted to the texts the model stores: null, a string, or an
\* object with string members.  kind "throw" is a SyntaxError.
JSONParse(t) ==
    IF t = <<"n", "u", "l", "l">> THEN [kind |-> "null", members |-> <<>>]
    ELSE IF t # <<>> /\ t[1] = "\""
         THEN LET s == ParseString(t, 2, <<>>) IN
              IF s.ok /\ s.next = Len(t) + 1 THEN [kind |-> "string", members |-> <<>>]
              ELSE [kind |-> "throw", members |-> <<>>]
    ELSE IF t = <<"{", "}">> THEN [kind |-> "object", members |-> <<>>]
    ELSE IF t # <<>> /\ t[1] = "{"
         THEN LET m == ParseMembers(t, 2, <<>>) IN
              IF m.ok /\ m.next = Len(t) + 1 THEN [kind |-> "object", members |-> m.val]
              ELSE [kind |-> "throw", members |-> <<>>]
    ELSE [kind |-> "throw", members |-> <<>>]

\* property read parsed[key]: the last member of that name, << >> when undefined
RECURSIVE Prop(_, _)
Prop(members, key) ==
    IF members = <<>> THEN <<>>
    ELSE LET last == members[Len(members)] IN
         IF last[1] = <<key>> THEN <<last[2]>>
         ELSE Prop(SubSeq(members, 1, Len(members) - 1), key)

\* truthiness of a property read: defined and a non-empty string
TruthyProp(p) == p # <<>> /\ Truthy(p[1])

(* ------------------------------- state --------------------------------- *)

VARIABLES
    localStorage,      \* item 'techcorp_employee': << >> or <<JSON text>>
    mounted,           \* the mount effects have run
    employee,          \* [fullName, employeeId], the identity inputs
    employeeMessage,   \* << >> or <<message>>
    isEmployeeSaved,
    messageTimers,     \* pending setTimeout(() => setEmployeeMessage(null), 3000)
    comment,
    selectedFile,      \* << >> or <<File>>
    isSubmitting,
    expenseMessage,    \* << >> or <<message>>
    posts,             \* POSTs to the webhook awaiting their response
    refreshTimers,     \* timer id -> << >> or <<the callback of a pending
                       \* setTimeout(() => fetchExpenseHistory(), 1000)>>
    queries,           \* history queries awaiting their result
    expenses,
    isLoadingHistory,
    historyError       \* << >> or <<text>>

identityVars == <<localStorage, employee, employeeMessage, isEmployeeSaved, messageTimers>>
formVars == <<comment, selectedFile, isSubmitting, expenseMessage, posts, refreshTimers>>
historyVars == <<queries, expenses, isLoadingHistory, historyError>>
fetchVars == <<queries, isLoadingHistory, historyError>>
vars == <<mounted, identityVars, formVars, historyVars>>

(* ----------------------------- constants ------------------------------- *)

ALLOWED_FILE_TYPES == {"image/jpeg", "image/jpg", "image/png", "image/webp", "image/gif"}

\* a message: its type, its text (the Bulgarian texts are given in English)
\* and the values interpolated into it
Message(type, text, args) == [type |-> type, text |-> text, args |-> args]

MsgEnterFullName == Message("error", "enter your full name", <<>>)
MsgEnterEmployeeId == Message("error", "enter your employee number", <<>>)
MsgEmployeeSaved == Message("success", "data saved", <<>>)
MsgIdentityRequired == Message("error", "save your identity first", <<>>)
MsgProvideReceipt == Message("error", "upload a receipt or enter a description", <<>>)
MsgInvalidFormat == Message("error", "invalid file format", <<>>)
MsgSubmitted == Message("success", "expense sent for processing", <<>>)
MsgProcessed(args) == Message("success", "expense processed, status", args)
MsgSubmitError(detail) == Message("error", "error submitting the expense", <<detail>>)
HistoryErrorText == "error loading the history"

RemoveAt(s, i) == SubSeq(s, 1, i - 1) \o SubSeq(s, i + 1, Len(s))

(* ------------------------------ identity ------------------------------- *)

NoEmployee == [fullName |-> <<>>, employeeId |-> <<>>]

\* IdentityReady without the test of fullName
IdentityReadyNameUntested(emp, saved) ==
    saved /\ Truthy(emp.employeeId)

\* the guard of fetchExpenseHistory, negated: the fetch goes ahead
IdentityReady(emp, saved) ==
    saved /\ Truthy(emp.fullName) /\ Truthy(emp.employeeId)

\* fetchExpenseHistory up to its await, run with the employee and saved flag
\* of the render that created the callback
FetchExpenseHistory(emp, saved) ==
    IF ~IdentityReady(emp, saved)
    THEN UNCHANGED fetchVars
    ELSE /\ queries' = Append(queries, [employee_id |-> emp.employeeId])
         /\ isLoadingHistory' = TRUE
         /\ historyError' = <<>>

\* the effect that re-runs when isEmployeeSaved or fetchExpenseHistory (that
\* is, fullName, employeeId or isEmployeeSaved) changed in the last render
AutoFetchEffect(emp, saved) ==
    IF <<emp.fullName, emp.employeeId, saved>>
           # <<employee.fullName, employee.employeeId, isEmployeeSaved>>
       /\ saved
    THEN FetchExpenseHistory(emp, saved)
    ELSE UNCHANGED fetchVars

\* the mount effect's reading of localStorage: the employee and saved flag it
\* leaves in the state
LoadedIdentity(item) ==
    IF item = <<>> \/ ~Truthy(item[1])
    THEN [employee |-> NoEmployee, saved |-> FALSE]
    ELSE LET parsed == JSONParse(item[1])
             fullName == Prop(parsed.members, "fullName")
             employeeId == Prop(parsed.members, "employeeId")
         IN  IF parsed.kind = "object" /\ TruthyProp(fullName) /\ TruthyProp(employeeId)
             THEN [employee |-> [fullName |-> fullName[1], employeeId |-> employeeId[1]],
                   saved |-> TRUE]
             ELSE [employee |-> NoEmployee, saved |-> FALSE]

LoadEmployee ==
    /\ ~mounted
    /\ mounted' = TRUE
    /\ LET r == LoadedIdentity(localStorage) IN
        /\ employee' = r.employee
        /\ isEmployeeSaved' = r.saved
        /\ AutoFetchEffect(r.employee, r.saved)
    /\ UNCHANGED <<localStorage, employeeMessage, messageTimers, formVars, expenses>>

SetFullName(v) ==
    /\ mounted
    /\ v # employee.fullName
    /\ employee' = [employee EXCEPT !.fullName = v]
    /\ AutoFetchEffect(employee', isEmployeeSaved)
    /\ UNCHANGED <<mounted, localStorage, employeeMessage, isEmployeeSaved, messageTimers,
                   formVars, expenses>>

SetEmployeeId(v) ==
    /\ mounted
    /\ v # employee.employeeId
    /\ employee' = [employee EXCEPT !.employeeId = v]
    /\ AutoFetchEffect(employee', isEmployeeSaved)
    /\ UNCHANGED <<mounted, localStorage, employeeMessage, isEmployeeSaved, messageTimers,
                   formVars, expenses>>

\* SaveError with the two checks in the other order
SaveErrorIdFirst(emp) ==
    IF ~Truthy(Trim(emp.employeeId)) THEN <<MsgEnterEmployeeId>>
    ELSE IF ~Truthy(Trim(emp.fullName)) THEN <<MsgEnterFullName>>
    ELSE <<>>

\* the validation of handleSaveEmployee: << >> when the identity may be saved
SaveError(emp) ==
    IF ~Truthy(Trim(emp.fullName)) THEN <<MsgEnterFullName>>
    ELSE IF ~Truthy(Trim(emp.employeeId)) THEN <<MsgEnterEmployeeId>>
    ELSE <<>>

\* SavedRecord with the employee id left untrimmed
SavedRecordIdUntrimmed(emp) ==
    [fullName |-> Trim(emp.fullName), employeeId |-> emp.employeeId]

\* the record handleSaveEmployee writes
SavedRecord(emp) ==
    [fullName |-> Trim(emp.fullName), employeeId |-> Trim(emp.employeeId)]

\* HandleSaveEmployee with the list emptied when a new identity is saved
HandleSaveEmployeeResetsHistory ==
    /\ mounted
    /\ IF SaveError(employee) # <<>>
       THEN /\ employeeMessage' = SaveError(employee)
            /\ UNCHANGED <<localStorage, isEmployeeSaved, messageTimers, fetchVars, expenses>>
       ELSE /\ localStorage' = <<JSONStringify(SavedRecord(employee))>>
            /\ isEmployeeSaved' = TRUE
            /\ employeeMessage' = <<MsgEmployeeSaved>>
            /\ messageTimers' = messageTimers + 1
            /\ AutoFetchEffect(employee, TRUE)
            /\ expenses' = <<>>
    /\ UNCHANGED <<mounted, employee, formVars>>

HandleSaveEmployee ==
    /\ mounted
    /\ IF SaveError(employee) # <<>>
       THEN /\ employeeMessage' = SaveError(employee)
            /\ UNCHANGED <<localStorage, isEmployeeSaved, messageTimers, fetchVars>>
       ELSE /\ localStorage' = <<JSONStringify(SavedRecord(employee))>>
            /\ isEmployeeSaved' = TRUE
            /\ employeeMessage' = <<MsgEmployeeSaved>>
            /\ messageTimers' = messageTimers + 1
            /\ AutoFetchEffect(employee, TRUE)
    /\ UNCHANGED <<mounted, employee, formVars, expenses>>

\* a 3-second timer of handleSaveEmployee fires
EmployeeMessageTimer ==
    /\ messageTimers > 0
    /\ messageTimers' = messageTimers - 1
    /\ employeeMessage' = <<>>
    /\ UNCHANGED <<mounted, localStorage, employee, isEmployeeSaved, formVars, historyVars>>

(* ---------------------------- submission ------------------------------- *)

SetComment(v) ==
    /\ mounted
    /\ v # comment
    /\ comment' = v
    /\ UNCHANGED <<mounted, identityVars, selectedFile, isSubmitting, expenseMessage, posts,
                   refreshTimers, historyVars>>

\* HandleFileChange without the type check
HandleFileChangeAnyType(files) ==
    /\ mounted
    /\ IF files = <<>>
       THEN UNCHANGED <<selectedFile, expenseMessage>>
       ELSE /\ selectedFile' = files
            /\ expenseMessage' = <<>>
    /\ UNCHANGED <<mounted, identityVars, comment, isSubmitting, posts, refreshTimers,
                   historyVars>>

\* handleFileChange; files is e.target.files?.[0], << >> when the picker was
\* emptied
HandleFileChange(files) ==
    /\ mounted
    /\ IF files = <<>>
       THEN UNCHANGED <<selectedFile, expenseMessage>>
       ELSE IF files[1].type \notin ALLOWED_FILE_TYPES
            THEN /\ expenseMessage' = <<MsgInvalidFormat>>
                 /\ selectedFile' = <<>>
            ELSE /\ selectedFile' = files
                 /\ expenseMessage' = <<>>
    /\ UNCHANGED <<mounted, identityVars, comment, isSubmitting, posts, refreshTimers,
                   historyVars>>

\* SubmitError with the comment tested untrimmed
SubmitErrorUntrimmed(emp, saved, file, text) ==
    IF ~saved \/ ~Truthy(emp.fullName) \/ ~Truthy(emp.employeeId)
    THEN <<MsgIdentityRequired>>
    ELSE IF file = <<>> /\ ~Truthy(text)
    THEN <<MsgProvideReceipt>>
    ELSE IF file # <<>> /\ file[1].type \notin ALLOWED_FILE_TYPES
    THEN <<MsgInvalidFormat>>
    ELSE <<>>

\* SubmitError with the receipt-or-description check before the identity check
SubmitErrorReceiptFirst(emp, saved, file, text) ==
    IF file = <<>> /\ ~Truthy(Trim(text))
    THEN <<MsgProvideReceipt>>
    ELSE IF ~saved \/ ~Truthy(emp.fullName) \/ ~Truthy(emp.employeeId)
    THEN <<MsgIdentityRequired>>
    ELSE IF file # <<>> /\ file[1].type \notin ALLOWED_FILE_TYPES
    THEN <<MsgInvalidFormat>>
    ELSE <<>>

\* the precondition checks of handleSubmitExpense, in their order: the error
\* message of the first that fails, << >> when all pass
SubmitError(emp, saved, file, text) ==
    IF ~saved \/ ~Truthy(emp.fullName) \/ ~Truthy(emp.employeeId)
    THEN <<MsgIdentityRequired>>
    ELSE IF file = <<>> /\ ~Truthy(Trim(text))
    THEN <<MsgProvideReceipt>>
    ELSE IF file # <<>> /\ file[1].type \notin ALLOWED_FILE_TYPES
    THEN <<MsgInvalidFormat>>
    ELSE <<>>

\* the multipart body, with the fetchExpenseHistory callback that the
\* continuation of this call holds (that of the render of the click)
PostRequest(emp, saved, file, text) ==
    [full_name |-> emp.fullName,
     employee_id |-> emp.employeeId,
     comment |-> Trim(text),
     receipt_file |-> file,
     callback |-> [employee |-> emp, isEmployeeSaved |-> saved]]

\* HandleSubmitExpense with the button left enabled while submitting
HandleSubmitExpenseNotDisabled ==
    /\ mounted
    /\ LET err == SubmitError(employee, isEmployeeSaved, selectedFile, comment) IN
       IF err # <<>>
       THEN /\ expenseMessage' = err
            /\ UNCHANGED <<isSubmitting, posts>>
       ELSE /\ expenseMessage' = <<>>
            /\ isSubmitting' = TRUE
            /\ posts' = Append(posts, PostRequest(employee, isEmployeeSaved,
                                                  selectedFile, comment))
    /\ UNCHANGED <<mounted, identityVars, comment, selectedFile, refreshTimers, historyVars>>

\* handleSubmitExpense up to its await; the button is disabled while
\* isSubmitting
HandleSubmitExpense ==
    /\ mounted
    /\ ~isSubmitting
    /\ LET err == SubmitError(employee, isEmployeeSaved, selectedFile, comment) IN
       IF err # <<>>
       THEN /\ expenseMessage' = err
            /\ UNCHANGED <<isSubmitting, posts>>
       ELSE /\ expenseMessage' = <<>>
            /\ isSubmitting' = TRUE
            /\ posts' = Append(posts, PostRequest(employee, isEmployeeSaved,
                                                  selectedFile, comment))
    /\ UNCHANGED <<mounted, identityVars, comment, selectedFile, refreshTimers, historyVars>>

\* what fetch(N8N_WEBHOOK_URL) settles with.  A rejected promise has
\* rejected = TRUE and the thrown error's message; a response has its status,
\* its content-type header (<< >> when absent) and its body: whether json()
\* parses it, and the status and reason fields of the parsed object (<< >>
\* when absent).
Rejection(msg) ==
    [rejected |-> TRUE, message |-> msg, status |-> 0, contentType |-> <<>>,
     body |-> [parses |-> FALSE, status |-> <<>>, reason |-> <<>>]]

Response(status, contentType, body) ==
    [rejected |-> FALSE, message |-> "", status |-> status, contentType |-> contentType,
     body |-> body]

Body(parses, status, reason) == [parses |-> parses, status |-> status, reason |-> reason]

\* response.ok
ResponseOk(r) == r.status \in 200..299

\* contentType.includes('application/json'), over the header values modelled
IncludesJson(ct) == ct \in {"application/json", "application/json; charset=utf-8"}

\* ResponseData with the body parsed whatever the content type
ResponseDataAnyContentType(r) ==
    IF r.body.parses THEN <<r.body>> ELSE <<>>

\* responseData after the parsing attempt: << >> is null
ResponseData(r) ==
    IF r.contentType # <<>> /\ IncludesJson(r.contentType[1]) /\ r.body.parses
    THEN <<r.body>>
    ELSE <<>>

\* the message shown for a successful response
SuccessMessage(r) ==
    LET d == ResponseData(r) IN
    IF d # <<>> /\ d[1].status # <<>> /\ d[1].status[1] # ""
    THEN MsgProcessed(IF d[1].reason # <<>> /\ d[1].reason[1] # ""
                      THEN <<d[1].status[1], d[1].reason[1]>>
                      ELSE <<d[1].status[1]>>)
    ELSE MsgSubmitted

\* the message of the error the try block throws
ThrownMessage(r) ==
    IF r.rejected THEN r.message
    ELSE "HTTP error! status: " \o ToString(r.status)

\* the message shown in the catch block
FailureMessage(r) ==
    MsgSubmitError(IF ThrownMessage(r) # "" THEN ThrownMessage(r) ELSE "please try again")

\* whether the try block of handleSubmitExpense throws on r
SubmitThrows(r) == r.rejected \/ ~ResponseOk(r)

\* PostComplete with setIsSubmitting(false) as the last statement of the try
\* block instead of in finally
PostCompleteNoFinally(i, r, k) ==
    /\ i \in 1..Len(posts)
    /\ posts' = RemoveAt(posts, i)
    /\ IF SubmitThrows(r)
       THEN /\ expenseMessage' = <<FailureMessage(r)>>
            /\ UNCHANGED <<comment, selectedFile, refreshTimers, isSubmitting>>
       ELSE /\ comment' = <<>>
            /\ selectedFile' = <<>>
            /\ expenseMessage' = <<SuccessMessage(r)>>
            /\ refreshTimers[k] = <<>>
            /\ refreshTimers' = [refreshTimers EXCEPT ![k] = <<posts[i].callback>>]
            /\ isSubmitting' = FALSE
    /\ UNCHANGED <<mounted, identityVars, historyVars>>

\* PostComplete with the form cleared before response.ok is tested
PostCompleteClearsFirst(i, r, k) ==
    /\ i \in 1..Len(posts)
    /\ posts' = RemoveAt(posts, i)
    /\ comment' = <<>>
    /\ selectedFile' = <<>>
    /\ IF SubmitThrows(r)
       THEN /\ expenseMessage' = <<FailureMessage(r)>>
            /\ UNCHANGED refreshTimers
       ELSE /\ expenseMessage' = <<SuccessMessage(r)>>
            /\ refreshTimers[k] = <<>>
            /\ refreshTimers' = [refreshTimers EXCEPT ![k] = <<posts[i].callback>>]
    /\ isSubmitting' = FALSE
    /\ UNCHANGED <<mounted, identityVars, historyVars>>

\* PostComplete without the delayed refresh
PostCompleteNoRefresh(i, r, k) ==
    /\ i \in 1..Len(posts)
    /\ posts' = RemoveAt(posts, i)
    /\ IF SubmitThrows(r)
       THEN /\ expenseMessage' = <<FailureMessage(r)>>
            /\ UNCHANGED <<comment, selectedFile>>
       ELSE /\ comment' = <<>>
            /\ selectedFile' = <<>>
            /\ expenseMessage' = <<SuccessMessage(r)>>
    /\ isSubmitting' = FALSE
    /\ UNCHANGED <<mounted, identityVars, refreshTimers, historyVars>>

\* the continuation of handleSubmitExpense after its await, for the i-th
\* POST in flight settling with r; k is the id setTimeout returns
PostComplete(i, r, k) ==
    /\ i \in 1..Len(posts)
    /\ posts' = RemoveAt(posts, i)
    /\ IF SubmitThrows(r)
       THEN /\ expenseMessage' = <<FailureMessage(r)>>
            /\ UNCHANGED <<comment, selectedFile, refreshTimers>>
       ELSE /\ comment' = <<>>
            /\ selectedFile' = <<>>
            /\ expenseMessage' = <<SuccessMessage(r)>>
            /\ refreshTimers[k] = <<>>
            /\ refreshTimers' = [refreshTimers EXCEPT ![k] = <<posts[i].callback>>]
    /\ isSubmitting' = FALSE
    /\ UNCHANGED <<mounted, identityVars, historyVars>>

\* the 1-second timer k fires and calls the callback it holds
RefreshTimer(k) ==
    /\ refreshTimers[k] # <<>>
    /\ refreshTimers' = [refreshTimers EXCEPT ![k] = <<>>]
    /\ FetchExpenseHistory(refreshTimers[k][1].employee,
                           refreshTimers[k][1].isEmployeeSaved)
    /\ UNCHANGED <<mounted, identityVars, comment, selectedFile, isSubmitting,
                   expenseMessage, posts, expenses>>

(* ------------------------------ history -------------------------------- *)

\* the refresh button: rendered when isEmployeeSaved, disabled while loading
RefreshClick ==
    /\ mounted
    /\ isEmployeeSaved
    /\ ~isLoadingHistory
    /\ FetchExpenseHistory(employee, isEmployeeSaved)
    /\ UNCHANGED <<mounted, identityVars, formVars, expenses>>

\* what the query settles with: { data, error }, data << >> when null
QueryResult(failed, data) == [error |-> failed, data |-> data]

\* QueryComplete with the list emptied in the catch block
QueryCompleteClearsOnError(i, res) ==
    /\ i \in 1..Len(queries)
    /\ queries' = RemoveAt(queries, i)
    /\ IF res.error
       THEN /\ historyError' = <<HistoryErrorText>>
            /\ expenses' = <<>>
       ELSE /\ expenses' = (IF res.data # <<>> THEN res.data[1] ELSE <<>>)
            /\ UNCHANGED historyError
    /\ isLoadingHistory' = FALSE
    /\ UNCHANGED <<mounted, identityVars, formVars>>

\* QueryComplete with the response dropped when a query issued later is
\* still in flight
QueryCompleteLatestIssued(i, res) ==
    /\ i \in 1..Len(queries)
    /\ queries' = RemoveAt(queries, i)
    /\ IF res.error
       THEN /\ historyError' = <<HistoryErrorText>>
            /\ UNCHANGED expenses
       ELSE /\ expenses' = (IF i < Len(queries) THEN expenses
                            ELSE IF res.data # <<>> THEN res.data[1] ELSE <<>>)
            /\ UNCHANGED historyError
    /\ isLoadingHistory' = FALSE
    /\ UNCHANGED <<mounted, identityVars, formVars>>

\* the continuation of fetchExpenseHistory after its await, for the i-th
\* query in flight settling with res
QueryComplete(i, res) ==
    /\ i \in 1..Len(queries)
    /\ queries' = RemoveAt(queries, i)
    /\ IF res.error
       THEN /\ historyError' = <<HistoryErrorText>>
            /\ UNCHANGED expenses
       ELSE /\ expenses' = (IF res.data # <<>> THEN res.data[1] ELSE <<>>)
            /\ UNCHANGED historyError
    /\ isLoadingHistory' = FALSE
    /\ UNCHANGED <<mounted, identityVars, formVars>>

(* --------------------------- the environment --------------------------- *)

\* what the user types into an identity field: empty, blank, padded on the
\* left, padded on the right, bare
IdentityInputs == {<<>>, <<" ">>, <<"a">>, <<" ", "a">>, <<"b", " ">>}

\* the identity inputs of the specification of the whole component
BriefInputs == {<<>>, <<"a">>}

\* what the user types into the comment
CommentInputs == {<<>>, <<" ">>, <<" ", "a">>}

\* what the file picker hands over: nothing, or a File of some declared type
File(type) == [type |-> type]
PickedFiles == {<<>>, <<File("image/png")>>, <<File("application/pdf")>>, <<File("")>>}

\* what localStorage may hold at startup: nothing, an empty string, text that
\* is not JSON, JSON that is no identity, or a record written by an earlier
\* handleSaveEmployee
StoredItems ==
    { <<>>,
      <<<<>>>>,
      <<<<"{", "a">>>>,
      <<<<"n", "u", "l", "l">>>>,
      <<<<"{">> \o Quote(<<"fullName">>) \o <<":">> \o Quote(<<"a">>) \o <<"}">>>>,
      <<JSONStringify([fullName |-> <<>>, employeeId |-> <<"a">>])>>,
      <<JSONStringify([fullName |-> <<"a">>, employeeId |-> <<"b">>])>> }

BriefItems == {<<>>, <<JSONStringify([fullName |-> <<"a">>, employeeId |-> <<"a">>])>>}

\* what the webhook call may settle with
PostOutcomes ==
    { Rejection("Failed to fetch"),
      Rejection(""),
      Response(500, <<"text/html">>, Body(FALSE, <<>>, <<>>)),
      Response(404, <<"application/json">>, Body(TRUE, <<"Rejected">>, <<>>)),
      Response(200, <<>>, Body(FALSE, <<>>, <<>>)),
      Response(200, <<"text/html">>, Body(TRUE, <<"Approved">>, <<>>)),
      Response(200, <<"application/json">>, Body(FALSE, <<>>, <<>>)),
      Response(200, <<"application/json">>, Body(TRUE, <<>>, <<>>)),
      Response(200, <<"application/json">>, Body(TRUE, <<"">>, <<>>)),
      Response(200, <<"application/json">>, Body(TRUE, <<"Approved">>, <<"">>)),
      Response(200, <<"application/json">>, Body(TRUE, <<"Approved">>, <<>>)),
      Response(201, <<"application/json; charset=utf-8">>,
               Body(TRUE, <<"Rejected">>, <<"duplicate">>)) }

\* expense rows of the remote store; the fields no handler reads are left out
Expense(id, amount, status, category) ==
    [id |-> id, amount |-> amount, status |-> status, category |-> category]

Row1 == Expense("1", 10, "Approved", "Food")
Row2 == Expense("2", 5, "Rejected", "Food")

\* what a history query may settle with
QueryOutcomes ==
    { QueryResult(TRUE, <<>>),
      QueryResult(FALSE, <<>>),
      QueryResult(FALSE, <<<<>>>>),
      QueryResult(FALSE, <<<<Row1>>>>),
      QueryResult(FALSE, <<<<Row2, Row1>>>>) }

\* the ids of the refresh timers
TimerIds == 1..MaxRefreshTimers

\* the bounds on what is pending at once
WithinBounds ==
    /\ Len(queries') <= MaxQueries
    /\ messageTimers' <= MaxMessageTimers

(* --------------------------- specifications ---------------------------- *)

Unmounted ==
    /\ mounted = FALSE
    /\ employee = NoEmployee
    /\ employeeMessage = <<>>
    /\ isEmployeeSaved = FALSE
    /\ messageTimers = 0
    /\ comment = <<>>
    /\ selectedFile = <<>>
    /\ isSubmitting = FALSE
    /\ expenseMessage = <<>>
    /\ posts = <<>>
    /\ refreshTimers = [k \in TimerIds |-> <<>>]
    /\ queries = <<>>
    /\ expenses = <<>>
    /\ isLoadingHistory = FALSE
    /\ historyError = <<>>

Mount == LoadEmployee /\ WithinBounds
SaveEmployee == HandleSaveEmployee /\ WithinBounds
MessageTimerFires == EmployeeMessageTimer
TypeComment == \E v \in CommentInputs : SetComment(v)
PickFile == \E f \in PickedFiles : HandleFileChange(f)
SubmitExpense == HandleSubmitExpense
PostSettles ==
    \E i \in 1..Len(posts) : \E r \in PostOutcomes : \E k \in TimerIds :
        PostComplete(i, r, k)
RefreshTimerFires == \E k \in TimerIds : RefreshTimer(k) /\ WithinBounds
Refresh == RefreshClick /\ WithinBounds
QuerySettles == \E i \in 1..Len(queries) : \E res \in QueryOutcomes : QueryComplete(i, res)

(* The whole component; the identity fields take the brief inputs. *)

Init == localStorage \in BriefItems /\ Unmounted

TypeFullName == \E v \in BriefInputs : SetFullName(v) /\ WithinBounds
TypeEmployeeId == \E v \in BriefInputs : SetEmployeeId(v) /\ WithinBounds

Next ==
    \/ Mount
    \/ TypeFullName
    \/ TypeEmployeeId
    \/ SaveEmployee
    \/ MessageTimerFires
    \/ TypeComment
    \/ PickFile
    \/ SubmitExpense
    \/ PostSettles
    \/ RefreshTimerFires
    \/ Refresh
    \/ QuerySettles

Spec == Init /\ [][Next]_vars

(* The submission section and the history it drives, with the identity     *)
(* that Mount loads and the edits of its fields, under fairness.  Left out  *)
(* are handleSaveEmployee and its timer; they write no variable of          *)
(* formVars.                                                                *)

NextSubmission ==
    \/ Mount
    \/ TypeFullName
    \/ TypeEmployeeId
    \/ TypeComment
    \/ PickFile
    \/ SubmitExpense
    \/ PostSettles
    \/ RefreshTimerFires
    \/ Refresh
    \/ QuerySettles

\* every POST settles and every history query settles; a timer that is set
\* fires (it is strong fairness because the bound on the queries in flight
\* disables the step from time to time, which nothing in the browser does)
Fairness ==
    /\ WF_vars(PostSettles)
    /\ WF_vars(QuerySettles)
    /\ \A k \in TimerIds : SF_vars(RefreshTimer(k) /\ WithinBounds)

SpecSubmission == Init /\ [][NextSubmission]_vars /\ Fairness

(* The identity section and the history it drives, with every identity     *)
(* input and every stored item.  The handlers left out (comment, file,     *)
(* submit and their continuations) leave identityVars unchanged.           *)

InitIdentity == localStorage \in StoredItems /\ Unmounted

EditFullName == \E v \in IdentityInputs : SetFullName(v) /\ WithinBounds
EditEmployeeId == \E v \in IdentityInputs : SetEmployeeId(v) /\ WithinBounds

NextIdentity ==
    \/ Mount
    \/ EditFullName
    \/ EditEmployeeId
    \/ SaveEmployee
    \/ MessageTimerFires
    \/ Refresh
    \/ QuerySettles

SpecIdentity == InitIdentity /\ [][NextIdentity]_vars

(* ------------------------------ properties ----------------------------- *)

\* a message is shown and it is an error
IsError(m) == m # <<>> /\ m[1].type = "error"
IsSuccess(m) == m # <<>> /\ m[1].type = "success"

\* some precondition of a submission fails in the current state
C1_PreconditionFails ==
    \/ ~isEmployeeSaved
    \/ employee.fullName = <<>>
    \/ employee.employeeId = <<>>
    \/ (selectedFile = <<>> /\ Trim(comment) = <<>>)
    \/ (selectedFile # <<>> /\ selectedFile[1].type \notin ALLOWED_FILE_TYPES)

\* C1: a submit attempt that fails a precondition issues no POST and does not
\* enter Submitting: isSubmitting stays false, an error message is set, and
\* comment, selectedFile and expenses are unchanged.
C1_RejectedSubmit ==
    [][(HandleSubmitExpense /\ C1_PreconditionFails) =>
          /\ posts' = posts
          /\ ~isSubmitting /\ ~isSubmitting'
          /\ IsError(expenseMessage')
          /\ UNCHANGED <<comment, selectedFile, expenses>>]_vars

\* a submit was rejected for a blank comment and no file: nothing is in
\* flight and the comment is still there
C1_Witness ==
    /\ expenseMessage = <<MsgProvideReceipt>>
    /\ isEmployeeSaved
    /\ comment = <<" ">>
    /\ posts = <<>>
    /\ ~isSubmitting

\* C2: whenever isEmployeeSaved, fullName and employeeId of the identity
\* state are non-empty after trimming.
C2_SavedIdentityNonEmpty ==
    isEmployeeSaved =>
        Trim(employee.fullName) # <<>> /\ Trim(employee.employeeId) # <<>>

\* the identity state decoded from a stored text
C3_Decoded(text) ==
    LET parsed == JSONParse(text) IN
    [kind |-> parsed.kind,
     size |-> Len(parsed.members),
     fullName |-> Prop(parsed.members, "fullName"),
     employeeId |-> Prop(parsed.members, "employeeId")]

\* C3: a save with both fields non-empty after trimming writes exactly the
\* trimmed pair {fullName, employeeId} to localStorage and sets the saved flag.
C3_SaveWritesTrimmedPair ==
    [][(HandleSaveEmployee
          /\ Trim(employee.fullName) # <<>> /\ Trim(employee.employeeId) # <<>>) =>
          /\ localStorage' # <<>>
          /\ C3_Decoded(localStorage'[1]) =
                [kind |-> "object", size |-> 2,
                 fullName |-> <<Trim(employee.fullName)>>,
                 employeeId |-> <<Trim(employee.employeeId)>>]
          /\ isEmployeeSaved']_vars

\* padded inputs were saved: the stored pair is the trimmed one
C3_Witness ==
    /\ employee = [fullName |-> <<" ", "a">>, employeeId |-> <<"b", " ">>]
    /\ employeeMessage = <<MsgEmployeeSaved>>
    /\ isEmployeeSaved
    /\ localStorage = <<JSONStringify([fullName |-> <<"a">>, employeeId |-> <<"b">>])>>

\* C4: a save whose full name is empty after trimming gives the name error,
\* whatever the employee id; with a name and an id empty after trimming it
\* gives the id error; neither writes localStorage nor changes the saved flag.
C4_InvalidSaveWritesNothing ==
    [][/\ (HandleSaveEmployee /\ Trim(employee.fullName) = <<>>) =>
              /\ employeeMessage' = <<MsgEnterFullName>>
              /\ UNCHANGED <<localStorage, isEmployeeSaved>>
       /\ (HandleSaveEmployee /\ Trim(employee.fullName) # <<>>
              /\ Trim(employee.employeeId) = <<>>) =>
              /\ employeeMessage' = <<MsgEnterEmployeeId>>
              /\ UNCHANGED <<localStorage, isEmployeeSaved>>]_vars

\* a save with both fields blank was refused with the name error, after an
\* earlier save whose record and flag are still there
C4_Witness ==
    /\ employeeMessage = <<MsgEnterFullName>>
    /\ employee = [fullName |-> <<" ">>, employeeId |-> <<>>]
    /\ isEmployeeSaved
    /\ localStorage = <<JSONStringify([fullName |-> <<"a">>, employeeId |-> <<"a">>])>>

\* a file of an allowed type, or none
C5_Allowed(file) == file = <<>> \/ file[1].type \in ALLOWED_FILE_TYPES

\* C5: every POST issued carries no file or a file of an allowed type, and
\* selectedFile never holds a file of another type.
C5_OnlyAllowedFiles ==
    /\ \A i \in 1..Len(posts) : C5_Allowed(posts[i].receipt_file)
    /\ C5_Allowed(selectedFile)

\* a POST carrying an image is in flight and a PDF picked meanwhile was
\* refused
C5_Witness ==
    /\ Len(posts) = 1
    /\ posts[1].receipt_file = <<File("image/png")>>
    /\ expenseMessage = <<MsgInvalidFormat>>
    /\ selectedFile = <<>>

\* C6: with every POST settling, a state with isSubmitting true is followed
\* by one with isSubmitting false, whatever the outcome.
C6_SubmitReenabled == isSubmitting ~> ~isSubmitting

\* a submission failed with a network error and the button is enabled again
C6_Witness ==
    /\ expenseMessage = <<MsgSubmitError("Failed to fetch")>>
    /\ ~isSubmitting
    /\ posts = <<>>

\* the outcome is a failure: a rejected call or a status outside 200..299
C7_Failure(r) == r.rejected \/ r.status < 200 \/ r.status > 299

\* C7: the handling of a failed submission leaves comment, selectedFile and
\* expenses unchanged, sets an error message and schedules no refresh.
C7_FailureKeepsForm ==
    [][\A i \in 1..Len(posts) : \A r \in PostOutcomes : \A k \in TimerIds :
          (PostComplete(i, r, k) /\ C7_Failure(r)) =>
              /\ UNCHANGED <<comment, selectedFile, expenses, refreshTimers, queries>>
              /\ IsError(expenseMessage')]_vars

\* a submission with a comment and a file got status 500: both are kept
C7_Witness ==
    /\ expenseMessage = <<MsgSubmitError("HTTP error! status: 500")>>
    /\ comment = <<" ", "a">>
    /\ selectedFile = <<File("image/png")>>
    /\ \A k \in TimerIds : refreshTimers[k] = <<>>
    /\ ~isSubmitting

\* the fetchExpenseHistory of the render in which POST p was submitted
C8_Callback(p) ==
    [employee |-> [fullName |-> p.full_name, employeeId |-> p.employee_id],
     isEmployeeSaved |-> TRUE]

\* C8: the handling of a 2xx response clears comment and selectedFile, sets a
\* success message and starts a timer holding the submitter's
\* fetchExpenseHistory; a timer that fires issues a history query for that
\* employee; and every pending timer fires.
C8_SuccessRefreshes ==
    /\ [][\A i \in 1..Len(posts) : \A r \in PostOutcomes : \A k \in TimerIds :
             (PostComplete(i, r, k) /\ ~C7_Failure(r)) =>
                 /\ comment' = <<>>
                 /\ selectedFile' = <<>>
                 /\ IsSuccess(expenseMessage')
                 /\ refreshTimers[k] = <<>>
                 /\ refreshTimers'[k] = <<C8_Callback(posts[i])>>]_vars
    /\ [][\A k \in TimerIds : RefreshTimer(k) =>
             queries' = Append(queries,
                               [employee_id |-> refreshTimers[k][1].employee.employeeId])]_vars
    /\ \A k \in TimerIds : (refreshTimers[k] # <<>>) ~> (refreshTimers[k] = <<>>)

\* a submission succeeded, the identity fields were emptied afterwards, and
\* the refresh timer is pending with the submitter's identity
C8_Witness ==
    /\ expenseMessage = <<MsgProcessed(<<"Rejected", "duplicate">>)>>
    /\ comment = <<>>
    /\ selectedFile = <<>>
    /\ employee = NoEmployee
    /\ \E k \in TimerIds :
          refreshTimers[k] = <<[employee |-> [fullName |-> <<"a">>, employeeId |-> <<"a">>],
                                isEmployeeSaved |-> TRUE]>>

C10_Ready(emp, saved) == saved /\ emp.fullName # <<>> /\ emp.employeeId # <<>>

C11_LoadingWhileInFlight == isLoadingHistory <=> (queries # <<>>)

\* C12: the success message of a save clears itself when its timer fires,
\* and a timer never clears a message newer than the one it was set for.
\* An error message of the identity section starts no timer, so an error
\* message on screen while a timer is pending is newer than that timer's
\* message: the timer leaves it in place.
C12_TimerSparesNewerMessage ==
    [][(EmployeeMessageTimer /\ IsError(employeeMessage)) =>
          employeeMessage' = employeeMessage]_vars

\* the data a settled history query carries into the list: its rows, or
\* none when it carries null
C13_Data(res) == IF res.data # <<>> THEN res.data[1] ELSE <<>>

\* C13: when history fetches overlap and succeed, the list is the data of
\* whichever response arrived last: every successful response replaces the
\* list with its own data, whatever the list held before and whether the
\* query was issued first or last among those in flight
C13_LastArrivalWins ==
    [][\A i \in 1..Len(queries) : \A res \in QueryOutcomes :
          (QueryComplete(i, res) /\ ~res.error) => expenses' = C13_Data(res)]_vars

\* two fetches overlapped: the response to one of them has arrived with two
\* rows (the flag is down, no error since) and the other is still awaited
C13_Witness ==
    /\ Len(queries) = 1
    /\ ~isLoadingHistory
    /\ expenses = <<Row2, Row1>>
    /\ historyError = <<>>

(* ---------------------------- the statistics --------------------------- *)

\* the label of the expenses without a category ("other", in Bulgarian in
\* the source)
OtherCategory == "Other"

\* exp.amount || 0, for a row whose amount may be absent
Amount(exp) == IF "amount" \in DOMAIN exp /\ exp.amount # 0 THEN exp.amount ELSE 0

\* exp.category || OtherCategory, for a row whose category may be absent
CategoryNoFallbackForEmpty(exp) ==
    IF "category" \in DOMAIN exp THEN exp.category ELSE OtherCategory

Category(exp) ==
    IF "category" \in DOMAIN exp /\ exp.category # "" THEN exp.category ELSE OtherCategory

\* expenses.reduce((sum, exp) => sum + (exp.amount || 0), 0)
RECURSIVE Total(_)
Total(list) ==
    IF list = <<>> THEN 0
    ELSE Total(SubSeq(list, 1, Len(list) - 1)) + Amount(list[Len(list)])

\* expenses.filter(exp => exp.status === status).length
CountStatus(list, status) ==
    LET Test(exp) == exp.status = status IN Len(SelectSeq(list, Test))

\* the object the forEach loop fills, a function from the categories met so
\* far to their amounts
RECURSIVE ByCategory(_)
ByCategory(list) ==
    IF list = <<>> THEN [cat \in {} |-> 0]
    ELSE LET byCategory == ByCategory(SubSeq(list, 1, Len(list) - 1))
             exp == list[Len(list)]
             cat == Category(exp)
         IN  IF cat \in DOMAIN byCategory
             THEN [byCategory EXCEPT ![cat] = (IF @ # 0 THEN @ ELSE 0) + Amount(exp)]
             ELSE (cat :> 0 + Amount(exp)) @@ byCategory

CalculateStats(list) ==
    [ total |-> Total(list),
      approved |-> CountStatus(list, "Approved"),
      rejected |-> CountStatus(list, "Rejected"),
      pending |-> CountStatus(list, "Manual Review"),
      byCategory |-> ByCategory(list) ]

\* rows as the store may return them: without a category, without an amount
\* and with an empty category, with a zero amount under the label itself
Row3 == [id |-> "3", amount |-> 7, status |-> "Manual Review"]
Row4 == [id |-> "4", status |-> "Approved", category |-> ""]
Row5 == Expense("5", 0, "Rejected", OtherCategory)
StatRows == {Row1, Row2, Row3, Row4, Row5}

\* the longest list a history query returns here
MaxRows == 3

RECURSIVE ListsUpTo(_)
ListsUpTo(n) ==
    IF n = 0 THEN {<<>>}
    ELSE LET shorter == ListsUpTo(n - 1)
         IN  shorter \cup {Append(l, r) : l \in shorter, r \in StatRows}

\* a history query settles with some list of rows
QuerySettlesWithRows ==
    \E i \in 1..Len(queries) : \E list \in ListsUpTo(MaxRows) :
        QueryComplete(i, QueryResult(FALSE, <<list>>))

(* The history section of a returning employee: the list is fetched at     *)
(* mount and by the refresh button, and the statistics are computed from   *)
(* it at every render.                                                     *)

NextStats ==
    \/ Mount
    \/ Refresh
    \/ QuerySettlesWithRows

SpecStats == Init /\ [][NextStats]_vars

(* ------------------------------ C14 ------------------------------------ *)

\* the amount of a row, nothing when it has none
C14_Amount(exp) == IF "amount" \in DOMAIN exp THEN exp.amount ELSE 0

\* the category a row counts under
C14_Category(exp) ==
    IF "category" \notin DOMAIN exp \/ exp.category = "" THEN OtherCategory
    ELSE exp.category

\* the sum of the amounts of the rows of expenses at the positions in S
RECURSIVE C14_Sum(_)
C14_Sum(S) ==
    IF S = {} THEN 0
    ELSE LET i == CHOOSE j \in S : TRUE
         IN  C14_Amount(expenses[i]) + C14_Sum(S \ {i})

\* the sum of the values of a function to the numbers
RECURSIVE C14_SumValues(_)
C14_SumValues(f) ==
    IF DOMAIN f = {} THEN 0
    ELSE LET c == CHOOSE d \in DOMAIN f : TRUE
         IN  f[c] + C14_SumValues([d \in DOMAIN f \ {c} |-> f[d]])

C14_With(status) == {i \in DOMAIN expenses : expenses[i].status = status}
C14_Under(cat) == {i \in DOMAIN expenses : C14_Category(expenses[i]) = cat}

Reload ==
    /\ mounted
    /\ mounted' = FALSE
    /\ employee' = NoEmployee
    /\ employeeMessage' = <<>>
    /\ isEmployeeSaved' = FALSE
    /\ messageTimers' = 0
    /\ comment' = <<>>
    /\ selectedFile' = <<>>
    /\ isSubmitting' = FALSE
    /\ expenseMessage' = <<>>
    /\ posts' = <<>>
    /\ refreshTimers' = [k \in TimerIds |-> <<>>]
    /\ queries' = <<>>
    /\ expenses' = <<>>
    /\ isLoadingHistory' = FALSE
    /\ historyError' = <<>>
    /\ UNCHANGED localStorage

\* identity inputs that need escaping in JSON, padded on either side
PaddedInputs == {<<>>, <<" ", "\"">>, <<"\\", " ">>}

TypePaddedFullName == \E v \in PaddedInputs : SetFullName(v) /\ WithinBounds
TypePaddedEmployeeId == \E v \in PaddedInputs : SetEmployeeId(v) /\ WithinBounds

(* The identity section across page loads. *)

NextReload ==
    \/ Mount
    \/ TypePaddedFullName
    \/ TypePaddedEmployeeId
    \/ SaveEmployee
    \/ MessageTimerFires
    \/ QuerySettles
    \/ Reload

SpecReload == InitIdentity /\ [][NextReload]_vars

\* the pairs a successful save persists: both fields trimmed and non-empty
C15_Fields == {<<"a">>, <<"b">>, <<"\"">>, <<"\\">>}
C15_Pairs == {[fullName |-> f, employeeId |-> e] : f \in C15_Fields, e \in C15_Fields}
C15_Persisted(pair) == localStorage = <<JSONStringify(pair)>>

\* C15: load round-trips save.  A successful save persists the trimmed pair;
\* the load of a later page load, finding a persisted pair, marks the
\* identity saved and puts exactly that pair in the fields; finding nothing,
\* a pair with a missing or empty field, or text that is no JSON object, it
\* leaves the identity unsaved with empty fields.  It shows no message.
C15_LoadRoundTripsSave ==
    [][/\ (HandleSaveEmployee /\ SaveError(employee) = <<>>) =>
              \E pair \in C15_Pairs :
                  /\ pair.fullName = Trim(employee.fullName)
                  /\ pair.employeeId = Trim(employee.employeeId)
                  /\ C15_Persisted(pair)'
       /\ LoadEmployee =>
              /\ employeeMessage' = <<>>
              /\ expenseMessage' = <<>>
              /\ historyError' = <<>>
              /\ IF \E pair \in C15_Pairs : C15_Persisted(pair)
                 THEN \E pair \in C15_Pairs :
                          /\ C15_Persisted(pair)
                          /\ isEmployeeSaved'
                          /\ employee' = pair
                 ELSE /\ ~isEmployeeSaved'
                      /\ employee' = NoEmployee]_vars

\* a pair typed with padding was saved, the page was loaded anew, and the
\* load has put the trimmed pair in the fields (no input is a bare quote or
\* a bare backslash)
C15_Witness ==
    /\ mounted
    /\ isEmployeeSaved
    /\ employee = [fullName |-> <<"\"">>, employeeId |-> <<"\\">>]
    /\ employeeMessage = <<>>
    /\ C15_Persisted(employee)

(* ------------------------------ C16 ------------------------------------ *)

C16_NoIdentity == ~isEmployeeSaved \/ employee.fullName = <<>> \/ employee.employeeId = <<>>
C16_NothingToSend == selectedFile = <<>> /\ Trim(comment) = <<>>
C16_WrongType == selectedFile # <<>> /\ selectedFile[1].type \notin ALLOWED_FILE_TYPES

\* C16: a submission checks the saved identity first, then that a file or a
\* non-blank description is present, then the type of the file; the message
\* is that of the first check that fails, and only when none fails is a
\* POST issued
C16_FirstFailureWins ==
    [][HandleSubmitExpense =>
          IF C16_NoIdentity
          THEN expenseMessage' = <<MsgIdentityRequired>> /\ posts' = posts
          ELSE IF C16_NothingToSend
          THEN expenseMessage' = <<MsgProvideReceipt>> /\ posts' = posts
          ELSE IF C16_WrongType
          THEN expenseMessage' = <<MsgInvalidFormat>> /\ posts' = posts
          ELSE expenseMessage' = <<>> /\ Len(posts') = Len(posts) + 1]_vars

\* the first two checks both fail and the message is that of the first
C16_Witness ==
    /\ ~isEmployeeSaved
    /\ selectedFile = <<>>
    /\ comment = <<" ">>
    /\ expenseMessage = <<MsgIdentityRequired>>
    /\ posts = <<>>

(* ------------------------------ C17 ------------------------------------ *)

\* the response declared JSON and its body parsed
C17_Parsed(r) ==
    /\ r.contentType # <<>>
    /\ r.contentType[1] \in {"application/json", "application/json; charset=utf-8"}
    /\ r.body.parses

\* the handling of the outcome r of a submission: a failure when the call
\* is rejected or the status is not 2xx, with an error message and the form
\* kept; a success otherwise, with the form cleared and the message that
\* carries the status (and the reason when told to) when told to
C17_Handled(r, withStatus, withReason) ==
    IF r.rejected \/ r.status \notin 200..299
    THEN /\ IsError(expenseMessage')
         /\ UNCHANGED <<comment, selectedFile>>
    ELSE /\ comment' = <<>>
         /\ selectedFile' = <<>>
         /\ expenseMessage' =
               (IF withStatus
                THEN <<MsgProcessed(IF withReason
                                    THEN <<r.body.status[1], r.body.reason[1]>>
                                    ELSE <<r.body.status[1]>>)>>
                ELSE <<MsgSubmitted>>)

\* C17 as stated: a non-2xx status ends in failure, a 2xx response in
\* success whatever its body, and the success message carries the status
\* (and the reason when present) exactly when a JSON body with a status
\* field was parsed
C17_StatusWhenFieldParsed ==
    [][\A i \in 1..Len(posts) : \A r \in PostOutcomes : \A k \in TimerIds :
          PostComplete(i, r, k) =>
              C17_Handled(r, C17_Parsed(r) /\ r.body.status # <<>>,
                          r.body.reason # <<>>)]_vars

\* C17, amended: a non-2xx status ends in failure, a 2xx response in success
\* whatever its body, and the success message carries the status exactly
\* when a JSON body with a non-empty status field was parsed, with the
\* reason when that is non-empty too
C17_StatusWhenFieldNonEmpty ==
    [][\A i \in 1..Len(posts) : \A r \in PostOutcomes : \A k \in TimerIds :
          PostComplete(i, r, k) =>
              C17_Handled(r, C17_Parsed(r) /\ r.body.status \notin {<<>>, <<"">>},
                          r.body.reason \notin {<<>>, <<"">>})]_vars

\* a 2xx response with a parsed status and no reason was handled: the
\* message carries the status and the form is cleared
C17_Witness ==
    /\ expenseMessage = <<MsgProcessed(<<"Approved">>)>>
    /\ comment = <<>>
    /\ selectedFile = <<>>
    /\ ~isSubmitting
    /\ posts = <<>>

(* ------------------------------ C18 ------------------------------------ *)

\* the identity record last written to localStorage
C18_Stored(pair) == localStorage = <<JSONStringify(pair)>>

\* C18: the full_name and employee_id of every POST and the employee_id of
\* every history query are those of the identity record most recently
\* written to localStorage, the trimmed pair
C18_CallsCarrySavedIdentity ==
    /\ \A i \in 1..Len(posts) :
          C18_Stored([fullName |-> posts[i].full_name, employeeId |-> posts[i].employee_id])
    /\ \A i \in 1..Len(queries) :
          \E name \in {Trim(v) : v \in IdentityInputs} :
              C18_Stored([fullName |-> name, employeeId |-> queries[i].employee_id])

(* ------------------------------ C19 ------------------------------------ *)

\* C19: at most one POST is in flight at any time, and isSubmitting is true
\* exactly while one is
C19_OnePostInFlight ==
    /\ Len(posts) <= 1
    /\ isSubmitting <=> (posts # <<>>)

\* a POST is in flight, the button is disabled, and the form already holds
\* what a second submission would send
C19_Witness ==
    /\ isSubmitting
    /\ Len(posts) = 1
    /\ posts[1].comment = <<>>
    /\ comment = <<" ", "a">>
    /\ selectedFile = <<File("image/png")>>
    /\ SubmitError(employee, isEmployeeSaved, selectedFile, comment) = <<>>

(* ------------------------------ C20 ------------------------------------ *)

\* C20: the expense list changes only by being replaced, whole, by the data
\* of a history fetch that succeeded; the load, a save, an edit, a file
\* selection, a submission and its outcome, a timer and a failed fetch
\* leave it as it is
C20_OnlyFetchReplacesList ==
    [][expenses' # expenses =>
          \E i \in 1..Len(queries) : \E res \in QueryOutcomes :
              /\ QueryComplete(i, res)
              /\ ~res.error
              /\ expenses' = (IF res.data = <<>> THEN <<>> ELSE res.data[1])]_vars

\* the list is on screen after a failed save, a submission that succeeded,
\* a fetch that failed and an edit of the description
C20_Witness ==
    /\ expenses = <<Row1>>
    /\ employeeMessage = <<MsgEnterFullName>>
    /\ expenseMessage = <<MsgSubmitted>>
    /\ historyError = <<HistoryErrorText>>
    /\ comment = <<" ", "a">>

====
